---- MODULE Spec2Model ----
(***************************************************************************)
(* Rules engine of the Badam Satti ("Sevens") server, backend/server.py:   *)
(* deck construction and deal, the legal-move calculator, play_card_logic  *)
(* and pass_turn_logic applied in place to one game_state dictionary.      *)
(***************************************************************************)
EXTENDS Integers, Sequences, FiniteSets, TLC

(* ---------------------------- bounds ----------------------------------- *)
\* The deck is cut down to the first NumSuits suits and to the ranks whose
\* value lies in LowRank..HighRank (a window around the 7).
NumSuits == 2
LowRank == 6
HighRank == 8
\* random.shuffle is represented by its outcome, an ordering of the deck.
\* The deal is checked (SpecDeal) on the orderings within MaxDealSwaps
\* exchanges of two cards of the order create_deck builds; games are played
\* (Spec) from that order and from those that exchange one of its first
\* MaxSwapPos cards with another card.
MaxDealSwaps == 2
MaxSwapPos == 2
\* turn_number is capped: no call is made once it has reached MaxTurn.
\* the one-suit game: one suit of ranks GapLow..GapHigh, 7 inside
GapLow == 5
GapHigh == 9
MaxTurn == 5

\* the rooms: decks of RoomSuits suits, games cut off at turn RoomMaxTurn; when
\* handlers interleave, at most MaxInflight of them between their load and
\* their store, games cut off at turn RaceMaxTurn, and no join request sent
\* once MaxIds player ids are issued
RoomSuits == 3
RoomMaxTurn == 6
MaxInflight == 2
RaceMaxTurn == 3
MaxIds == 4

(* ------------------------ static configuration ------------------------- *)
None == 0

\* None where a dictionary is expected
Null == [none |-> TRUE]

OK == "ok"

\* keys of CARD_RANKS in dictionary order, and their "value" entries
RankOrder == <<"K", "Q", "J", "10", "9", "8", "7", "6", "5", "4", "3", "2", "A">>

CARD_RANKS == [r \in {RankOrder[i] : i \in 1..Len(RankOrder)} |->
                 14 - (CHOOSE i \in 1..Len(RankOrder) : RankOrder[i] = r)]

\* keys of SUIT_COLORS in dictionary order
SuitOrder == <<"hearts", "spades", "diamonds", "clubs">>

Suits == SubSeq(SuitOrder, 1, NumSuits)

Ranks == SelectSeq(RankOrder, LAMBDA r : CARD_RANKS[r] >= LowRank /\ CARD_RANKS[r] <= HighRank)

SuitSet == {Suits[i] : i \in 1..Len(Suits)}

RankSet == {Ranks[i] : i \in 1..Len(Ranks)}

Card(r, s) == [rank |-> r, suit |-> s]

SevenOfHearts == Card("7", "hearts")

AllCards == {Card(r, s) : r \in RankSet, s \in SuitSet}

SeqToSet(q) == {q[i] : i \in 1..Len(q)}

\* the four keys of SUIT_COLORS: the suits every board carries
AllSuits == SeqToSet(SuitOrder)

\* player ids are opaque tokens (uuid4 strings in the server)
PlayerIdOf(seat) == 100 + seat

StrangerId == PlayerIdOf(4)

(* ------------------------------ deck ----------------------------------- *)
\* for suit in SUIT_COLORS: for rank in CARD_RANKS: deck.append(...)
create_deck == [k \in 1..(Len(Suits) * Len(Ranks)) |->
                  Card(Ranks[((k - 1) % Len(Ranks)) + 1],
                       Suits[((k - 1) \div Len(Ranks)) + 1])]

SwapAt(d, i, j) == [d EXCEPT ![i] = d[j], ![j] = d[i]]

\* the rearrangements of positions 1..n made of at most k exchanges
RECURSIVE WithinSwaps(_, _)
WithinSwaps(n, k) ==
    IF k = 0 THEN {[i \in 1..n |-> i]}
    ELSE LET prev == WithinSwaps(n, k - 1)
         IN  prev \cup {SwapAt(e, i, j) : e \in prev, i \in 1..n, j \in 1..n}

\* the orderings random.shuffle(deck) may leave in deck
shuffle_deck(d) ==
    {[i \in 1..Len(d) |-> d[p[i]]] : p \in WithinSwaps(Len(d), MaxDealSwaps)}

\* the shuffle outcomes the games are played from
ShuffleSample(d) ==
    {d} \cup {SwapAt(d, i, j) : i \in 1..MaxSwapPos, j \in 1..Len(d)}

\* the deal starting one seat late: card i to seat (i + 1) % num_players
RECURSIVE DealLoop_shifted(_, _, _, _)
DealLoop_shifted(d, num_players, i, hands) ==
    IF i >= Len(d) THEN hands
    ELSE DealLoop_shifted(d, num_players, i + 1,
                  [hands EXCEPT ![((i + 1) % num_players) + 1] = Append(@, d[i + 1])])

\* for i, card in enumerate(deck): hands[i % num_players].append(card)
RECURSIVE DealLoop(_, _, _, _)
DealLoop(d, num_players, i, hands) ==
    IF i >= Len(d) THEN hands
    ELSE DealLoop(d, num_players, i + 1,
                  [hands EXCEPT ![(i % num_players) + 1] = Append(@, d[i + 1])])

deal_cards(d, num_players) ==
    DealLoop(d, num_players, 0, [p \in 1..num_players |-> <<>>])

HasCard(hand, card) == \E i \in 1..Len(hand) : hand[i] = card

\* find_starting_player that always falls back to seat 0
find_starting_player_seat0(players) == 0

\* first seat whose hand holds the 7 of hearts, seat 0 when none does
find_starting_player(players) ==
    IF \E i \in 1..Len(players) : HasCard(players[i].hand, SevenOfHearts)
    THEN (CHOOSE i \in 1..Len(players) :
            /\ HasCard(players[i].hand, SevenOfHearts)
            /\ \A j \in 1..(i - 1) : ~HasCard(players[j].hand, SevenOfHearts)) - 1
    ELSE 0

\* a suit state that starts as if its 7 had been played
EmptySuitState_anchored == [low |-> 7, high |-> 7, has_seven |-> TRUE, cards |-> <<>>]

\* a suit state that starts with low and high at 7 before the 7 is played
EmptySuitState_sevens == [low |-> 7, high |-> 7, has_seven |-> FALSE, cards |-> <<>>]

\* board[suit] as initialize_game_state builds it
EmptySuitState == [low |-> None, high |-> None, has_seven |-> FALSE, cards |-> <<>>]

\* names are tokens too; a request may ask for any of them
NameOf(k) == 200 + k

\* a player entry as create_room, create_ai_game and join_room build it: the
\* k-th id issued, under the n-th name
NewPlayer(k, n, is_ai) ==
    [id |-> PlayerIdOf(k), name |-> NameOf(n), is_ai |-> is_ai, hand |-> <<>>]

\* the roster handed to initialize_game_state: num_players seated players
Roster(num_players) == [p \in 1..num_players |-> NewPlayer(p - 1, p - 1, FALSE)]

\* initialize_game_state with the shuffle's outcome d made explicit
initialize_game_state(roster, d) ==
    LET hands   == deal_cards(d, Len(roster))
        players == [p \in 1..Len(roster) |-> [roster[p] EXCEPT !.hand = hands[p]]]
        starting_player == find_starting_player(players)
    IN  [board |-> [s \in AllSuits |-> EmptySuitState],
         current_player_index |-> starting_player,
         players |-> players,
         winner |-> None,
         last_action |-> <<"goes first", players[starting_player + 1].id>>,
         turn_number |-> 1]

(* ----------------------- legal-move calculator -------------------------- *)
FirstIndexOf(hand, card) ==
    CHOOSE i \in 1..Len(hand) : hand[i] = card /\ \A j \in 1..(i - 1) : hand[j] # card

\* the test of a later turn that looks at the low side of a suit only
IsPlayable_lowonly(board_state, card) ==
    LET suit_state == board_state[card.suit]
        rank_value == CARD_RANKS[card.rank]
    IN  IF card.rank = "7" /\ ~suit_state.has_seven THEN TRUE
        ELSE IF suit_state.has_seven
             THEN rank_value = suit_state.low - 1
             ELSE FALSE

\* the test applied to one hand card by the loop of get_playable_cards
IsPlayable(board_state, card) ==
    LET suit_state == board_state[card.suit]
        rank_value == CARD_RANKS[card.rank]
    IN  IF card.rank = "7" /\ ~suit_state.has_seven THEN TRUE
        ELSE IF suit_state.has_seven
             THEN rank_value = suit_state.low - 1 \/ rank_value = suit_state.high + 1
             ELSE FALSE

\* get_playable_cards whose first-move branch takes the first 7 of any suit
get_playable_cards_any7(board_state, player_hand, is_first_move) ==
    IF is_first_move
    THEN IF \E i \in 1..Len(player_hand) : player_hand[i].rank = "7"
         THEN <<player_hand[CHOOSE i \in 1..Len(player_hand) :
                   /\ player_hand[i].rank = "7"
                   /\ \A j \in 1..(i - 1) : player_hand[j].rank # "7"]>>
         ELSE <<>>
    ELSE SelectSeq(player_hand, LAMBDA card : IsPlayable(board_state, card))

get_playable_cards(board_state, player_hand, is_first_move) ==
    IF is_first_move
    THEN IF HasCard(player_hand, SevenOfHearts) THEN <<SevenOfHearts>> ELSE <<>>
    ELSE SelectSeq(player_hand, LAMBDA card : IsPlayable(board_state, card))

\* the pop that leaves the hand as it was
RemoveCard_keep(hand, card) == hand

(* ------------------------- turn state machine --------------------------- *)
\* player["hand"].pop(i) at the first i whose card matches
RemoveCard(hand, card) ==
    LET i == FirstIndexOf(hand, card)
    IN  SubSeq(hand, 1, i - 1) \o SubSeq(hand, i + 1, Len(hand))

\* ApplyToSuit whose high branch writes the new value to low
ApplyToSuit_lowslip(suit_state, card) ==
    LET rank_value == CARD_RANKS[card.rank]
    IN  IF card.rank = "7"
        THEN IF suit_state.has_seven
             THEN [err |-> "7 already played for this suit", suit_state |-> suit_state]
             ELSE [err |-> OK,
                   suit_state |-> [low |-> 7, high |-> 7, has_seven |-> TRUE,
                                   cards |-> Append(suit_state.cards, card)]]
        ELSE IF ~suit_state.has_seven
             THEN [err |-> "Must play 7 first for this suit", suit_state |-> suit_state]
             ELSE IF rank_value = suit_state.low - 1
                  THEN [err |-> OK,
                        suit_state |-> [suit_state EXCEPT !.low = rank_value,
                                                          !.cards = Append(@, card)]]
                  ELSE IF rank_value = suit_state.high + 1
                       THEN [err |-> OK,
                             suit_state |-> [suit_state EXCEPT !.low = rank_value,
                                                               !.cards = Append(@, card)]]
                       ELSE [err |-> "Invalid play - card must extend the sequence",
                             suit_state |-> suit_state]

\* ApplyToSuit that takes any card above the high end
ApplyToSuit_gapped(suit_state, card) ==
    LET rank_value == CARD_RANKS[card.rank]
    IN  IF card.rank = "7"
        THEN IF suit_state.has_seven
             THEN [err |-> "7 already played for this suit", suit_state |-> suit_state]
             ELSE [err |-> OK,
                   suit_state |-> [low |-> 7, high |-> 7, has_seven |-> TRUE,
                                   cards |-> Append(suit_state.cards, card)]]
        ELSE IF ~suit_state.has_seven
             THEN [err |-> "Must play 7 first for this suit", suit_state |-> suit_state]
             ELSE IF rank_value = suit_state.low - 1
                  THEN [err |-> OK,
                        suit_state |-> [suit_state EXCEPT !.low = rank_value,
                                                          !.cards = Append(@, card)]]
                  ELSE IF rank_value > suit_state.high
                       THEN [err |-> OK,
                             suit_state |-> [suit_state EXCEPT !.high = rank_value,
                                                               !.cards = Append(@, card)]]
                       ELSE [err |-> "Invalid play - card must extend the sequence",
                             suit_state |-> suit_state]

\* the board checks of play_card_logic: the suit's new state, or the error
\* the board update that puts the accepted card in front of the played cards
ApplyToSuit_prepend(suit_state, card) ==
    LET rank_value == CARD_RANKS[card.rank]
    IN  IF card.rank = "7"
        THEN IF suit_state.has_seven
             THEN [err |-> "7 already played for this suit", suit_state |-> suit_state]
             ELSE [err |-> OK,
                   suit_state |-> [low |-> 7, high |-> 7, has_seven |-> TRUE,
                                   cards |-> <<card>> \o suit_state.cards]]
        ELSE IF ~suit_state.has_seven
             THEN [err |-> "Must play 7 first for this suit", suit_state |-> suit_state]
             ELSE IF rank_value = suit_state.low - 1
                  THEN [err |-> OK,
                        suit_state |-> [suit_state EXCEPT !.low = rank_value,
                                                          !.cards = <<card>> \o @]]
                  ELSE IF rank_value = suit_state.high + 1
                       THEN [err |-> OK,
                             suit_state |-> [suit_state EXCEPT !.high = rank_value,
                                                               !.cards = <<card>> \o @]]
                       ELSE [err |-> "Invalid play - card must extend the sequence",
                             suit_state |-> suit_state]

ApplyToSuit(suit_state, card) ==
    LET rank_value == CARD_RANKS[card.rank]
    IN  IF card.rank = "7"
        THEN IF suit_state.has_seven
             THEN [err |-> "7 already played for this suit", suit_state |-> suit_state]
             ELSE [err |-> OK,
                   suit_state |-> [low |-> 7, high |-> 7, has_seven |-> TRUE,
                                   cards |-> Append(suit_state.cards, card)]]
        ELSE IF ~suit_state.has_seven
             THEN [err |-> "Must play 7 first for this suit", suit_state |-> suit_state]
             ELSE IF rank_value = suit_state.low - 1
                  THEN [err |-> OK,
                        suit_state |-> [suit_state EXCEPT !.low = rank_value,
                                                          !.cards = Append(@, card)]]
                  ELSE IF rank_value = suit_state.high + 1
                       THEN [err |-> OK,
                             suit_state |-> [suit_state EXCEPT !.high = rank_value,
                                                               !.cards = Append(@, card)]]
                       ELSE [err |-> "Invalid play - card must extend the sequence",
                             suit_state |-> suit_state]

\* FinishMove that counts the turn but leaves it with the same seat
FinishMove_sameseat(gs, card) ==
    LET current_index == gs.current_player_index
        player == gs.players[current_index + 1]
    IN  IF Len(player.hand) = 0
        THEN [gs EXCEPT !.winner = player.id,
                        !.last_action = <<"wins", player.id>>]
        ELSE [gs EXCEPT !.turn_number = @ + 1,
                        !.last_action = <<"played", player.id, card>>]

\* FinishMove that declares the winner with one card still in hand
FinishMove_early(gs, card) ==
    LET current_index == gs.current_player_index
        player == gs.players[current_index + 1]
    IN  IF Len(player.hand) <= 1
        THEN [gs EXCEPT !.winner = player.id,
                        !.last_action = <<"wins", player.id>>]
        ELSE [gs EXCEPT !.current_player_index = (current_index + 1) % Len(gs.players),
                        !.turn_number = @ + 1,
                        !.last_action = <<"played", player.id, card>>]

\* the tail of play_card_logic: declare the winner or hand the turn on
FinishMove(gs, card) ==
    LET current_index == gs.current_player_index
        player == gs.players[current_index + 1]
    IN  IF Len(player.hand) = 0
        THEN [gs EXCEPT !.winner = player.id,
                        !.last_action = <<"wins", player.id>>]
        ELSE [gs EXCEPT !.current_player_index = (current_index + 1) % Len(gs.players),
                        !.turn_number = @ + 1,
                        !.last_action = <<"played", player.id, card>>]

\* play_card_logic that checks the board before it takes the card out
play_card_logic_validatefirst(gs, player_id, card) ==
    LET current_index == gs.current_player_index
        player == gs.players[current_index + 1]
    IN  IF player.id # player_id
        THEN [err |-> "Not your turn", gs |-> gs]
        ELSE IF ~HasCard(player.hand, card)
             THEN [err |-> "You don't have this card", gs |-> gs]
             ELSE LET popped == [gs EXCEPT !.players[current_index + 1].hand =
                                              RemoveCard(player.hand, card)]
                      placed == ApplyToSuit(gs.board[card.suit], card)
                  IN  IF placed.err # OK
                      THEN [err |-> placed.err, gs |-> gs]
                      ELSE [err |-> OK,
                            gs |-> FinishMove([popped EXCEPT !.board[card.suit] =
                                                                placed.suit_state], card)]

\* play_card_logic that checks the board before it looks for the card
play_card_logic_boardfirst(gs, player_id, card) ==
    LET current_index == gs.current_player_index
        player == gs.players[current_index + 1]
        placed == ApplyToSuit(gs.board[card.suit], card)
    IN  IF player.id # player_id
        THEN [err |-> "Not your turn", gs |-> gs]
        ELSE IF placed.err # OK
             THEN [err |-> placed.err,
                   gs |-> IF HasCard(player.hand, card)
                          THEN [gs EXCEPT !.players[current_index + 1].hand =
                                              RemoveCard(player.hand, card)]
                          ELSE gs]
             ELSE IF ~HasCard(player.hand, card)
                  THEN [err |-> "You don't have this card", gs |-> gs]
                  ELSE [err |-> OK,
                        gs |-> FinishMove([gs EXCEPT !.players[current_index + 1].hand =
                                                         RemoveCard(player.hand, card),
                                                     !.board[card.suit] =
                                                         placed.suit_state], card)]

\* play_card_logic on the dictionary gs: the dictionary as the call leaves it
\* (also when it raises) and the ValueError message, OK when it returns
\* play_card_logic that hands the turn on when the board refuses the card
play_card_logic_penalty(gs, player_id, card) ==
    LET current_index == gs.current_player_index
        player == gs.players[current_index + 1]
    IN  IF player.id # player_id
        THEN [err |-> "Not your turn", gs |-> gs]
        ELSE IF ~HasCard(player.hand, card)
             THEN [err |-> "You don't have this card", gs |-> gs]
             ELSE LET popped == [gs EXCEPT !.players[current_index + 1].hand =
                                              RemoveCard(player.hand, card)]
                      placed == ApplyToSuit(gs.board[card.suit], card)
                  IN  IF placed.err # OK
                      THEN [err |-> placed.err,
                            gs |-> [popped EXCEPT !.current_player_index =
                                                     (current_index + 1) % Len(gs.players)]]
                      ELSE [err |-> OK,
                            gs |-> FinishMove([popped EXCEPT !.board[card.suit] =
                                                                placed.suit_state], card)]

play_card_logic(gs, player_id, card) ==
    LET current_index == gs.current_player_index
        player == gs.players[current_index + 1]
    IN  IF player.id # player_id
        THEN [err |-> "Not your turn", gs |-> gs]
        ELSE IF ~HasCard(player.hand, card)
             THEN [err |-> "You don't have this card", gs |-> gs]
             ELSE LET popped == [gs EXCEPT !.players[current_index + 1].hand =
                                              RemoveCard(player.hand, card)]
                      placed == ApplyToSuit(gs.board[card.suit], card)
                  IN  IF placed.err # OK
                      THEN [err |-> placed.err, gs |-> popped]
                      ELSE [err |-> OK,
                            gs |-> FinishMove([popped EXCEPT !.board[card.suit] =
                                                                placed.suit_state], card)]

\* pass_turn_logic without the playable-cards check
pass_turn_logic_unforced(gs, player_id) ==
    LET current_index == gs.current_player_index
        player == gs.players[current_index + 1]
    IN  IF player.id # player_id
        THEN [err |-> "Not your turn", gs |-> gs]
        ELSE [err |-> OK,
              gs |-> [gs EXCEPT !.current_player_index =
                                    (current_index + 1) % Len(gs.players),
                                !.turn_number = @ + 1,
                                !.last_action = <<"passed", player.id>>]]

\* pass_turn_logic that counts the turn before it refuses the pass
pass_turn_logic_counted(gs, player_id) ==
    LET current_index == gs.current_player_index
        player == gs.players[current_index + 1]
    IN  IF player.id # player_id
        THEN [err |-> "Not your turn", gs |-> gs]
        ELSE IF Len(get_playable_cards(gs.board, player.hand, FALSE)) > 0
             THEN [err |-> "You have playable cards - cannot pass",
                   gs |-> [gs EXCEPT !.turn_number = @ + 1]]
             ELSE [err |-> OK,
                   gs |-> [gs EXCEPT !.current_player_index =
                                         (current_index + 1) % Len(gs.players),
                                     !.turn_number = @ + 1,
                                     !.last_action = <<"passed", player.id>>]]

\* pass_turn_logic that refuses every pass of the player to move
pass_turn_logic_refused(gs, player_id) ==
    LET current_index == gs.current_player_index
        player == gs.players[current_index + 1]
    IN  IF player.id # player_id
        THEN [err |-> "Not your turn", gs |-> gs]
        ELSE [err |-> "You have playable cards - cannot pass", gs |-> gs]

\* pass_turn_logic that hands the turn to the seat after the next
pass_turn_logic_skip(gs, player_id) ==
    LET current_index == gs.current_player_index
        player == gs.players[current_index + 1]
    IN  IF player.id # player_id
        THEN [err |-> "Not your turn", gs |-> gs]
        ELSE IF Len(get_playable_cards(gs.board, player.hand, FALSE)) > 0
             THEN [err |-> "You have playable cards - cannot pass", gs |-> gs]
             ELSE [err |-> OK,
                   gs |-> [gs EXCEPT !.current_player_index =
                                         (current_index + 2) % Len(gs.players),
                                     !.turn_number = @ + 1,
                                     !.last_action = <<"passed", player.id>>]]

\* pass_turn_logic that refuses the pass of a player who holds any card
pass_turn_logic_anycard(gs, player_id) ==
    LET current_index == gs.current_player_index
        player == gs.players[current_index + 1]
    IN  IF player.id # player_id
        THEN [err |-> "Not your turn", gs |-> gs]
        ELSE IF Len(player.hand) > 0
             THEN [err |-> "You have playable cards - cannot pass", gs |-> gs]
             ELSE [err |-> OK,
                   gs |-> [gs EXCEPT !.current_player_index =
                                         (current_index + 1) % Len(gs.players),
                                     !.turn_number = @ + 1,
                                     !.last_action = <<"passed", player.id>>]]

pass_turn_logic(gs, player_id) ==
    LET current_index == gs.current_player_index
        player == gs.players[current_index + 1]
    IN  IF player.id # player_id
        THEN [err |-> "Not your turn", gs |-> gs]
        ELSE IF Len(get_playable_cards(gs.board, player.hand, FALSE)) > 0
             THEN [err |-> "You have playable cards - cannot pass", gs |-> gs]
             ELSE [err |-> OK,
                   gs |-> [gs EXCEPT !.current_player_index =
                                         (current_index + 1) % Len(gs.players),
                                     !.turn_number = @ + 1,
                                     !.last_action = <<"passed", player.id>>]]

(* ------------------------------ AI player ------------------------------ *)
\* the values of the difficulty string: the three the server names and one
\* it does not
Difficulties == {"easy", "medium", "hard", "expert"}

\* len(suit_cards): the cards of one suit in the hand
SuitCount(hand, suit) == Cardinality({i \in 1..Len(hand) : hand[i].suit = suit})

\* the best_seven loop that lets a later 7 of equal count replace the best
RECURSIVE BestSeven_lasttie(_, _, _, _, _)
BestSeven_lasttie(sevens, hand, i, best_seven, best_count) ==
    IF i > Len(sevens) THEN best_seven
    ELSE LET count == SuitCount(hand, sevens[i].suit)
         IN  IF count >= best_count
             THEN BestSeven_lasttie(sevens, hand, i + 1, sevens[i], count)
             ELSE BestSeven_lasttie(sevens, hand, i + 1, best_seven, best_count)

\* the best_seven loop, from its i-th round on
RECURSIVE BestSeven(_, _, _, _, _)
BestSeven(sevens, hand, i, best_seven, best_count) ==
    IF i > Len(sevens) THEN best_seven
    ELSE LET count == SuitCount(hand, sevens[i].suit)
         IN  IF count > best_count
             THEN BestSeven(sevens, hand, i + 1, sevens[i], count)
             ELSE BestSeven(sevens, hand, i + 1, best_seven, best_count)

\* the score that counts the hand cards one step towards the 7
Score_inward(card, hand) ==
    LET rank_value == CARD_RANKS[card.rank]
        enabled(i) ==
            /\ hand[i].suit = card.suit
            /\ IF rank_value < 7
               THEN CARD_RANKS[hand[i].rank] = rank_value + 1
               ELSE CARD_RANKS[hand[i].rank] = rank_value - 1
    IN  2 * Cardinality({i \in 1..Len(hand) : enabled(i)})

\* the score the hard branch gives a playable card
Score(card, hand) ==
    LET rank_value == CARD_RANKS[card.rank]
        enabled(i) ==
            /\ hand[i].suit = card.suit
            /\ IF rank_value < 7
               THEN CARD_RANKS[hand[i].rank] = rank_value - 1
               ELSE CARD_RANKS[hand[i].rank] = rank_value + 1
    IN  2 * Cardinality({i \in 1..Len(hand) : enabled(i)})

\* scored_cards[0][0] after the stable sort by descending score
TopScored(playable, hand) ==
    LET top(i) == /\ \A j \in 1..Len(playable) :
                         Score(playable[j], hand) <= Score(playable[i], hand)
                  /\ \A j \in 1..(i - 1) :
                         Score(playable[j], hand) < Score(playable[i], hand)
    IN  playable[CHOOSE i \in 1..Len(playable) : top(i)]

\* ai_choose_card that takes the first card of the hand, playable or not
ai_choose_card_firstcard(gs, player, difficulty) ==
    IF player.hand = <<>> THEN {Null} ELSE {player.hand[1]}

\* ai_choose_card that judges every turn as a later turn
ai_choose_card_noopening(gs, player, difficulty) ==
    LET playable == get_playable_cards(gs.board, player.hand, FALSE)
        is_seven(c) == c.rank = "7"
        sevens == SelectSeq(playable, is_seven)
    IN  IF playable = <<>> THEN {Null}
        ELSE IF difficulty = "easy" THEN SeqToSet(playable)
        ELSE IF sevens # <<>>
             THEN IF difficulty = "hard"
                  THEN {BestSeven(sevens, player.hand, 1, Null, -1)}
                  ELSE {sevens[1]}
             ELSE IF difficulty = "hard"
                  THEN {TopScored(playable, player.hand)}
                  ELSE SeqToSet(playable)

\* ai_choose_card whose medium branch takes the last legal 7
ai_choose_card_last7(gs, player, difficulty) ==
    LET is_first_move == gs.turn_number = 1
        playable == get_playable_cards(gs.board, player.hand, is_first_move)
        is_seven(c) == c.rank = "7"
        sevens == SelectSeq(playable, is_seven)
    IN  IF playable = <<>> THEN {Null}
        ELSE IF difficulty = "easy" THEN SeqToSet(playable)
        ELSE IF sevens # <<>>
             THEN IF difficulty = "hard"
                  THEN {BestSeven(sevens, player.hand, 1, Null, -1)}
                  ELSE {sevens[Len(sevens)]}
             ELSE IF difficulty = "hard"
                  THEN {TopScored(playable, player.hand)}
                  ELSE SeqToSet(playable)

\* ai_choose_card: the set of values the call can return, Null for no card
\* (random.choice can return any entry of its list)
ai_choose_card(gs, player, difficulty) ==
    LET is_first_move == gs.turn_number = 1
        playable == get_playable_cards(gs.board, player.hand, is_first_move)
        is_seven(c) == c.rank = "7"
        sevens == SelectSeq(playable, is_seven)
    IN  IF playable = <<>> THEN {Null}
        ELSE IF difficulty = "easy" THEN SeqToSet(playable)
        ELSE IF sevens # <<>>
             THEN IF difficulty = "hard"
                  THEN {BestSeven(sevens, player.hand, 1, Null, -1)}
                  ELSE {sevens[1]}
             ELSE IF difficulty = "hard"
                  THEN {TopScored(playable, player.hand)}
                  ELSE SeqToSet(playable)

(* ------------------------------ state ---------------------------------- *)
VARIABLES
    deck,        \* the shuffled deck initialize_game_state dealt from
    game_state,  \* the game_state dictionary the engine mutates in place
    call,        \* the last engine call: "create", "start", "play" or "pass"
    result,      \* how it ended: OK or the ValueError message
    advances,    \* number of passes and non-winning moves that returned so far
    room,        \* the room document in db.game_rooms, Null before it is inserted
    tasks,       \* handlers and AI turns between their find_one and their update_one
    ai_pending,  \* process_ai_turn calls scheduled and not yet at their find_one
    issued,      \* number of player ids generated so far
    ai_run       \* AI turns stored since the last stored turn of a human

enginevars == <<deck, game_state, advances>>

roomvars == <<room, tasks, ai_pending, issued, ai_run>>

vars == <<deck, game_state, call, result, advances, room, tasks, ai_pending, issued, ai_run>>

\* a room before its game is started: game_state is None
Init ==
    /\ deck = <<>>
    /\ game_state = Null
    /\ call = "create"
    /\ result = OK
    /\ advances = 0
    /\ room = Null
    /\ tasks = <<>>
    /\ ai_pending = 0
    /\ issued = 0
    /\ ai_run = 0

Started == call # "create"

\* start of a game of num_players players, the shuffle leaving the deck as d
StartGame(num_players, d) ==
    /\ ~Started
    /\ deck' = d
    /\ game_state' = initialize_game_state(Roster(num_players), d)
    /\ call' = "start"
    /\ result' = OK
    /\ UNCHANGED advances
    /\ UNCHANGED roomvars

\* who may call: every seated player and one id that is not in the game
CallerIds ==
    IF Started
    THEN {game_state.players[p].id : p \in 1..Len(game_state.players)} \cup {StrangerId}
    ELSE {}

\* the call returned and left the hand of the seat that moved empty
IsWinningMove(gs, r) ==
    r.err = OK /\ r.gs.players[gs.current_player_index + 1].hand = <<>>

PlayCard(player_id, card) ==
    /\ Started
    /\ game_state.turn_number < MaxTurn
    /\ LET r == play_card_logic(game_state, player_id, card)
       IN  /\ game_state' = r.gs
           /\ result' = r.err
           /\ advances' = IF r.err = OK /\ ~IsWinningMove(game_state, r)
                          THEN advances + 1 ELSE advances
    /\ call' = "play"
    /\ UNCHANGED deck
    /\ UNCHANGED roomvars

PassTurn(player_id) ==
    /\ Started
    /\ game_state.turn_number < MaxTurn
    /\ LET r == pass_turn_logic(game_state, player_id)
       IN  /\ game_state' = r.gs
           /\ result' = r.err
           /\ advances' = IF r.err = OK THEN advances + 1 ELSE advances
    /\ call' = "pass"
    /\ UNCHANGED deck
    /\ UNCHANGED roomvars

Next ==
    \/ \E num_players \in 2..4, d \in ShuffleSample(create_deck) : StartGame(num_players, d)
    \/ \E player_id \in CallerIds, card \in AllCards : PlayCard(player_id, card)
    \/ \E player_id \in CallerIds : PassTurn(player_id)

Spec == Init /\ [][Next]_vars

\* the deal alone, over every outcome of the shuffle
NextDeal ==
    \E num_players \in 2..4, d \in shuffle_deck(create_deck) : StartGame(num_players, d)

SpecDeal == Init /\ [][NextDeal]_vars

\* the hearts of create_deck with ranks GapLow..GapHigh, in create_deck's order
HeartsDeck ==
    LET in_window(r) == CARD_RANKS[r] >= GapLow /\ CARD_RANKS[r] <= GapHigh
        ranks == SelectSeq(RankOrder, in_window)
    IN  [i \in 1..Len(ranks) |-> Card(ranks[i], "hearts")]

\* the game played with the hearts alone, by two or three players
NextGap ==
    \/ \E num_players \in 2..3, d \in ShuffleSample(HeartsDeck) : StartGame(num_players, d)
    \/ \E player_id \in CallerIds, card \in SeqToSet(HeartsDeck) : PlayCard(player_id, card)
    \/ \E player_id \in CallerIds : PassTurn(player_id)

SpecGap == Init /\ [][NextGap]_vars

(* ------------------------------ rooms ---------------------------------- *)
\* the ai_difficulty key of a room that has none
Unset == "unset"

\* create_deck over the first RoomSuits suits
RoomDeck ==
    LET suits == SubSeq(SuitOrder, 1, RoomSuits)
    IN  [k \in 1..(Len(suits) * Len(Ranks)) |->
            Card(Ranks[((k - 1) % Len(Ranks)) + 1], suits[((k - 1) \div Len(Ranks)) + 1])]

RoomCards == SeqToSet(RoomDeck)

\* AI_NAMES[i]
AiName(i) == NameOf(10 + i)

RemoveAt(q, i) == SubSeq(q, 1, i - 1) \o SubSeq(q, i + 1, Len(q))

\* the seat at current_player_index of gs is an AI seat
CurrentIsAi(gs) == gs.players[gs.current_player_index + 1].is_ai

\* who may send requests to the room: its players and one outsider
RoomCallerIds ==
    IF room = Null THEN {}
    ELSE {room.players[p].id : p \in 1..Len(room.players)} \cup {StrangerId}

\* the names a join request is sent with: the host's and an unused one
JoinNames ==
    IF room = Null THEN {}
    ELSE {room.players[1].name, NameOf(Len(room.players))}

\* create_room: a waiting room holding its host
CreateRoom ==
    /\ room = Null
    /\ room' = [players |-> <<NewPlayer(0, 0, FALSE)>>,
                game_state |-> Null,
                status |-> "waiting",
                is_ai_game |-> FALSE,
                ai_difficulty |-> Unset]
    /\ issued' = 1
    /\ call' = "create_room"
    /\ result' = OK
    /\ UNCHANGED <<tasks, ai_pending, ai_run, enginevars>>

\* create_ai_game: the human at seat 0, the AI players behind, dealt at once
\* from the shuffled deck d
CreateAiGame(num_ai_players, difficulty, d) ==
    /\ room = Null
    /\ LET max_1 == IF num_ai_players > 1 THEN num_ai_players ELSE 1
           num_ai == IF max_1 < 3 THEN max_1 ELSE 3
           players == [p \in 1..(num_ai + 1) |->
                          IF p = 1 THEN NewPlayer(0, 0, FALSE)
                          ELSE [NewPlayer(p - 1, 0, TRUE) EXCEPT !.name = AiName(p - 2)]]
           gs == initialize_game_state(players, d)
       IN  /\ room' = [players |-> gs.players,
                       game_state |-> gs,
                       status |-> "playing",
                       is_ai_game |-> TRUE,
                       ai_difficulty |-> difficulty]
           /\ issued' = num_ai + 1
           /\ ai_pending' = IF CurrentIsAi(gs) THEN 1 ELSE 0
    /\ call' = "create_ai_game"
    /\ result' = OK
    /\ UNCHANGED <<tasks, ai_run, enginevars>>

\* what a handler holds after its find_one: the document it loaded and the
\* fields of its request
Loaded(kind, player_id, card, name) ==
    [kind |-> kind, snap |-> room, player_id |-> player_id, card |-> card, name |-> name]

\* join_room from its checks to its update_one, for the handler holding t
join_room(t) ==
    LET taken == \E p \in 1..Len(t.snap.players) : t.snap.players[p].name = t.name
        refusal == IF t.snap.status # "waiting" THEN "Game already in progress"
                   ELSE IF Len(t.snap.players) >= 4 THEN "Room is full"
                   ELSE IF taken THEN "Name already taken in this room"
                   ELSE OK
        new_player == [NewPlayer(issued, 0, FALSE) EXCEPT !.name = t.name]
    IN  /\ t.kind = "join"
        /\ call' = "join"
        /\ result' = refusal
        /\ IF refusal # OK
           THEN UNCHANGED <<room, issued>>
           ELSE /\ room' = [room EXCEPT !.players = Append(t.snap.players, new_player)]
                /\ issued' = issued + 1
        /\ UNCHANGED <<ai_pending, ai_run>>

\* start_game without the check of the room's status
start_game_restart(t, decks) ==
    LET refusal == IF Len(t.snap.players) < 2 THEN "Need at least 2 players"
                   ELSE OK
    IN  /\ t.kind = "start"
        /\ call' = "start"
        /\ result' = refusal
        /\ IF refusal # OK
           THEN UNCHANGED room
           ELSE \E d \in decks :
                    LET gs == initialize_game_state(t.snap.players, d)
                    IN  room' = [room EXCEPT !.game_state = gs,
                                             !.players = gs.players,
                                             !.status = "playing"]
        /\ UNCHANGED <<ai_pending, issued, ai_run>>

\* start_game from its checks to its update_one, the shuffle leaving one of
\* decks
start_game(t, decks) ==
    LET refusal == IF Len(t.snap.players) < 2 THEN "Need at least 2 players"
                   ELSE IF t.snap.status # "waiting" THEN "Game already started"
                   ELSE OK
    IN  /\ t.kind = "start"
        /\ call' = "start"
        /\ result' = refusal
        /\ IF refusal # OK
           THEN UNCHANGED room
           ELSE \E d \in decks :
                    LET gs == initialize_game_state(t.snap.players, d)
                    IN  room' = [room EXCEPT !.game_state = gs,
                                             !.players = gs.players,
                                             !.status = "playing"]
        /\ UNCHANGED <<ai_pending, issued, ai_run>>

\* the process_ai_turn calls a play or pass handler schedules after storing gs
AiScheduled(snap, gs) ==
    IF snap.is_ai_game /\ gs.winner = None /\ CurrentIsAi(gs) THEN 1 ELSE 0

\* play_card that stores every accepted move with status playing
play_card_nofinish(t) ==
    LET r == play_card_logic(t.snap.game_state, t.player_id, t.card)
    IN  /\ t.kind = "play"
        /\ call' = "play"
        /\ IF t.snap.status # "playing"
           THEN /\ result' = "Game not in progress"
                /\ UNCHANGED <<room, ai_pending, ai_run>>
           ELSE IF r.err # OK
                THEN /\ result' = r.err
                     /\ UNCHANGED <<room, ai_pending, ai_run>>
                ELSE /\ result' = OK
                     /\ room' = [room EXCEPT
                                    !.game_state = r.gs,
                                    !.players = r.gs.players,
                                    !.status = "playing"]
                     /\ ai_pending' = ai_pending + AiScheduled(t.snap, r.gs)
                     /\ ai_run' = 0
        /\ UNCHANGED issued

\* play_card that stores the game state the engine left behind when it raised
play_card_storefail(t) ==
    LET r == play_card_logic(t.snap.game_state, t.player_id, t.card)
    IN  /\ t.kind = "play"
        /\ call' = "play"
        /\ IF t.snap.status # "playing"
           THEN /\ result' = "Game not in progress"
                /\ UNCHANGED <<room, ai_pending, ai_run>>
           ELSE IF r.err # OK
                THEN /\ result' = r.err
                     /\ room' = [room EXCEPT !.game_state = r.gs,
                                             !.players = r.gs.players]
                     /\ UNCHANGED <<ai_pending, ai_run>>
                ELSE /\ result' = OK
                     /\ room' = [room EXCEPT
                                    !.game_state = r.gs,
                                    !.players = r.gs.players,
                                    !.status = IF r.gs.winner # None
                                               THEN "finished" ELSE "playing"]
                     /\ ai_pending' = ai_pending + AiScheduled(t.snap, r.gs)
                     /\ ai_run' = 0
        /\ UNCHANGED issued

\* play_card from its status check to its response
play_card(t) ==
    LET r == play_card_logic(t.snap.game_state, t.player_id, t.card)
    IN  /\ t.kind = "play"
        /\ call' = "play"
        /\ IF t.snap.status # "playing"
           THEN /\ result' = "Game not in progress"
                /\ UNCHANGED <<room, ai_pending, ai_run>>
           ELSE IF r.err # OK
                THEN /\ result' = r.err
                     /\ UNCHANGED <<room, ai_pending, ai_run>>
                ELSE /\ result' = OK
                     /\ room' = [room EXCEPT
                                    !.game_state = r.gs,
                                    !.players = r.gs.players,
                                    !.status = IF r.gs.winner # None
                                               THEN "finished" ELSE "playing"]
                     /\ ai_pending' = ai_pending + AiScheduled(t.snap, r.gs)
                     /\ ai_run' = 0
        /\ UNCHANGED issued

\* pass_turn that goes on to the engine whenever the room has a game state
pass_turn_nostatus(t) ==
    LET r == pass_turn_logic(t.snap.game_state, t.player_id)
    IN  /\ t.kind = "pass"
        /\ call' = "pass"
        /\ IF t.snap.game_state = Null
           THEN /\ result' = "Game not in progress"
                /\ UNCHANGED <<room, ai_pending, ai_run>>
           ELSE IF r.err # OK
                THEN /\ result' = r.err
                     /\ UNCHANGED <<room, ai_pending, ai_run>>
                ELSE /\ result' = OK
                     /\ room' = [room EXCEPT !.game_state = r.gs]
                     /\ ai_pending' = ai_pending + AiScheduled(t.snap, r.gs)
                     /\ ai_run' = 0
        /\ UNCHANGED issued

\* pass_turn from its status check to its response
pass_turn(t) ==
    LET r == pass_turn_logic(t.snap.game_state, t.player_id)
    IN  /\ t.kind = "pass"
        /\ call' = "pass"
        /\ IF t.snap.status # "playing"
           THEN /\ result' = "Game not in progress"
                /\ UNCHANGED <<room, ai_pending, ai_run>>
           ELSE IF r.err # OK
                THEN /\ result' = r.err
                     /\ UNCHANGED <<room, ai_pending, ai_run>>
                ELSE /\ result' = OK
                     /\ room' = [room EXCEPT !.game_state = r.gs]
                     /\ ai_pending' = ai_pending + AiScheduled(t.snap, r.gs)
                     /\ ai_run' = 0
        /\ UNCHANGED issued

\* process_ai_turn goes on to its sleep from the document snap: the game is
\* not won and the seat to move is an AI seat
AiProceeds(snap) ==
    /\ snap # Null
    /\ snap.game_state # Null
    /\ snap.game_state.winner = None
    /\ CurrentIsAi(snap.game_state)

\* process_ai_turn from the end of its sleep on: choose, apply, store, and
\* call itself when the next seat is an AI seat; an exception ends it.
\* pending counts the scheduled calls other than this one
process_ai_turn(t, chosen_card, pending) ==
    LET gs == t.snap.game_state
        current_player == gs.players[gs.current_player_index + 1]
        difficulty == IF t.snap.ai_difficulty = Unset THEN "medium"
                      ELSE t.snap.ai_difficulty
        r == IF chosen_card # Null
             THEN play_card_logic(gs, current_player.id, chosen_card)
             ELSE pass_turn_logic(gs, current_player.id)
    IN  /\ t.kind = "ai"
        /\ chosen_card \in ai_choose_card(gs, current_player, difficulty)
        /\ call' = "ai"
        /\ result' = r.err
        /\ IF r.err # OK
           THEN /\ ai_pending' = pending
                /\ UNCHANGED <<room, ai_run>>
           ELSE /\ room' = [room EXCEPT
                               !.game_state = r.gs,
                               !.players = r.gs.players,
                               !.status = IF r.gs.winner # None
                                          THEN "finished" ELSE "playing"]
                /\ ai_pending' = pending
                                   + (IF r.gs.winner = None /\ CurrentIsAi(r.gs) THEN 1 ELSE 0)
                /\ ai_run' = ai_run + 1
        /\ UNCHANGED issued

\* the game of the room may go on under the turn cut-off
UnderCutoff(max_turn) ==
    room.game_state # Null => room.game_state.turn_number < max_turn

(* one request at a time: each handler runs from its find_one to its response
   before the next one starts *)
SerialJoin(name) ==
    /\ room # Null
    /\ join_room(Loaded("join", None, Null, name))
    /\ UNCHANGED <<tasks, enginevars>>

SerialStart ==
    /\ room # Null
    /\ start_game(Loaded("start", None, Null, None), ShuffleSample(create_deck))
    /\ UNCHANGED <<tasks, enginevars>>

SerialPlay(player_id, card) ==
    /\ room # Null
    /\ UnderCutoff(RoomMaxTurn)
    /\ play_card(Loaded("play", player_id, card, None))
    /\ UNCHANGED <<tasks, enginevars>>

SerialPass(player_id) ==
    /\ room # Null
    /\ UnderCutoff(RoomMaxTurn)
    /\ pass_turn(Loaded("pass", player_id, Null, None))
    /\ UNCHANGED <<tasks, enginevars>>

\* a scheduled process_ai_turn finds nothing to do and returns
SerialAiReturn ==
    /\ ai_pending > 0
    /\ ~AiProceeds(room)
    /\ ai_pending' = ai_pending - 1
    /\ UNCHANGED <<room, tasks, issued, ai_run, call, result, enginevars>>

SerialAiTurn(chosen_card) ==
    /\ ai_pending > 0
    /\ AiProceeds(room)
    /\ UnderCutoff(RoomMaxTurn)
    /\ process_ai_turn(Loaded("ai", None, Null, None), chosen_card, ai_pending - 1)
    /\ UNCHANGED <<tasks, enginevars>>

NextSerial ==
    \/ CreateRoom
    \/ \E num_ai_players \in 0..4, difficulty \in Difficulties,
          d \in ShuffleSample(create_deck) :
           CreateAiGame(num_ai_players, difficulty, d)
    \/ \E name \in JoinNames : SerialJoin(name)
    \/ SerialStart
    \/ \E player_id \in RoomCallerIds, card \in AllCards : SerialPlay(player_id, card)
    \/ \E player_id \in RoomCallerIds : SerialPass(player_id)
    \/ SerialAiReturn
    \/ \E chosen_card \in AllCards \cup {Null} : SerialAiTurn(chosen_card)

SpecSerial == Init /\ [][NextSerial]_vars

(* the test driver: a room is filled and started, then at every turn the
   driver asks for the playable cards of the player at current_player_index
   and plays the first of them, or passes when there is none *)
\* get_playable_cards_endpoint for the player the driver read from game_state
DriverPlayable ==
    LET gs == room.game_state
        player == gs.players[gs.current_player_index + 1]
        is_first_move == gs.turn_number = 1
    IN  get_playable_cards(gs.board, player.hand, is_first_move)

\* the id the driver sends: that of the player at current_player_index
DriverId == room.game_state.players[room.game_state.current_player_index + 1].id

DriverPlay ==
    /\ room # Null /\ room.game_state # Null
    /\ room.game_state.winner = None
    /\ DriverPlayable # <<>>
    /\ SerialPlay(DriverId, DriverPlayable[1])

DriverPass ==
    /\ room # Null /\ room.game_state # Null
    /\ room.game_state.winner = None
    /\ DriverPlayable = <<>>
    /\ SerialPass(DriverId)

NextDriver ==
    \/ CreateRoom
    \/ \E name \in JoinNames : SerialJoin(name)
    \/ SerialStart
    \/ DriverPlay
    \/ DriverPass

SpecDriver == Init /\ [][NextDriver]_vars

(* AI games on decks of RoomSuits suits, the human seat sending only requests
   that are accepted *)
HumanId == room.players[1].id

AcceptedPlay(card) ==
    /\ SerialPlay(HumanId, card)
    /\ result' = OK

AcceptedPass ==
    /\ SerialPass(HumanId)
    /\ result' = OK

NextAiGame ==
    \/ \E num_ai_players \in 0..4, difficulty \in Difficulties,
          d \in ShuffleSample(RoomDeck) :
           CreateAiGame(num_ai_players, difficulty, d)
    \/ \E card \in RoomCards : AcceptedPlay(card)
    \/ AcceptedPass
    \/ \E chosen_card \in RoomCards \cup {Null} : SerialAiTurn(chosen_card)

SpecAiGame == Init /\ [][NextAiGame]_vars

\* create_deck with the ranks GapLow..GapHigh of the first NumSuits suits
WideDeck ==
    LET in_window(r) == CARD_RANKS[r] >= GapLow /\ CARD_RANKS[r] <= GapHigh
        ranks == SelectSeq(RankOrder, in_window)
    IN  [k \in 1..(Len(Suits) * Len(ranks)) |->
            Card(ranks[((k - 1) % Len(ranks)) + 1], Suits[((k - 1) \div Len(ranks)) + 1])]

WideCards == SeqToSet(WideDeck)

(* AI games on WideDeck, whose hands hold neighbours two steps from the 7 *)
NextAiWide ==
    \/ \E num_ai_players \in 0..4, difficulty \in Difficulties,
          d \in ShuffleSample(WideDeck) :
           CreateAiGame(num_ai_players, difficulty, d)
    \/ \E card \in WideCards : AcceptedPlay(card)
    \/ AcceptedPass
    \/ \E chosen_card \in WideCards \cup {Null} : SerialAiTurn(chosen_card)

SpecAiWide == Init /\ [][NextAiWide]_vars

\* the shuffle outcomes of the interleaved runs: the deck as built, and its
\* first card exchanged with one of the next
RaceDecks == {SwapAt(create_deck, 1, j) : j \in 1..MaxSwapPos}

(* handlers interleaved: each one is a load (find_one) and, later, the rest
   of the handler, other handlers running in between *)
Receive(kind, player_id, card, name) ==
    /\ room # Null
    /\ Len(tasks) < MaxInflight
    /\ UnderCutoff(RaceMaxTurn)
    /\ tasks' = Append(tasks, Loaded(kind, player_id, card, name))
    /\ UNCHANGED <<room, ai_pending, issued, ai_run, call, result, enginevars>>

FinishJoin(i) ==
    /\ join_room(tasks[i])
    /\ tasks' = RemoveAt(tasks, i)
    /\ UNCHANGED enginevars

FinishStart(i) ==
    /\ start_game(tasks[i], RaceDecks)
    /\ tasks' = RemoveAt(tasks, i)
    /\ UNCHANGED enginevars

FinishPlay(i) ==
    /\ play_card(tasks[i])
    /\ tasks' = RemoveAt(tasks, i)
    /\ UNCHANGED enginevars

FinishPass(i) ==
    /\ pass_turn(tasks[i])
    /\ tasks' = RemoveAt(tasks, i)
    /\ UNCHANGED enginevars

\* a scheduled process_ai_turn does its find_one: it returns, or goes to sleep
\* holding the document
AiLoad ==
    /\ ai_pending > 0
    /\ Len(tasks) < MaxInflight
    /\ ai_pending' = ai_pending - 1
    /\ IF AiProceeds(room) /\ UnderCutoff(RaceMaxTurn)
       THEN tasks' = Append(tasks, Loaded("ai", None, Null, None))
       ELSE UNCHANGED tasks
    /\ UNCHANGED <<room, issued, ai_run, call, result, enginevars>>

AiFinish(i, chosen_card) ==
    /\ process_ai_turn(tasks[i], chosen_card, ai_pending)
    /\ tasks' = RemoveAt(tasks, i)
    /\ UNCHANGED enginevars

\* the play and pass requests sent while handlers interleave: by the human
\* whose turn it is, with a card of their hand (a request of any other seat
\* is refused and stores nothing)
MoverIds ==
    IF room = Null \/ room.game_state = Null THEN {}
    ELSE LET mover == room.game_state.players[room.game_state.current_player_index + 1]
         IN  IF mover.is_ai THEN {} ELSE {mover.id}

MoverCards ==
    IF room = Null \/ room.game_state = Null THEN {}
    ELSE SeqToSet(room.game_state.players[room.game_state.current_player_index + 1].hand)

NextRace ==
    \/ CreateRoom
    \/ \E num_ai_players \in 0..4, difficulty \in Difficulties, d \in RaceDecks :
           CreateAiGame(num_ai_players, difficulty, d)
    \/ \E name \in JoinNames : issued < MaxIds /\ Receive("join", None, Null, name)
    \/ Receive("start", None, Null, None)
    \/ \E player_id \in MoverIds, card \in MoverCards :
           Receive("play", player_id, card, None)
    \/ \E player_id \in MoverIds : Receive("pass", player_id, Null, None)
    \/ \E i \in 1..Len(tasks) : FinishJoin(i)
    \/ \E i \in 1..Len(tasks) : FinishStart(i)
    \/ \E i \in 1..Len(tasks) : FinishPlay(i)
    \/ \E i \in 1..Len(tasks) : FinishPass(i)
    \/ AiLoad
    \/ \E i \in 1..Len(tasks), chosen_card \in AllCards \cup {Null} : AiFinish(i, chosen_card)

SpecRace == Init /\ [][NextRace]_vars

(* --------------------------- shorthands -------------------------------- *)
NumPlayers == Len(game_state.players)

CurrentPlayer == game_state.players[game_state.current_player_index + 1]

CurrentId == CurrentPlayer.id

InProgress == Started /\ game_state.winner = None

\* what the playable-cards query answers for the player whose turn it is
LegalNow ==
    get_playable_cards(game_state.board, CurrentPlayer.hand, game_state.turn_number = 1)

HandSet(p) == SeqToSet(game_state.players[p].hand)

TypeOK ==
    Started =>
        /\ game_state.current_player_index \in 0..(NumPlayers - 1)
        /\ game_state.turn_number \in 1..MaxTurn
        /\ NumPlayers \in 2..4

(* ------------------------------ claims --------------------------------- *)
\* C1: while the game is in progress, a card outside the playable-cards answer
\* (computed with is_first_move = (turn_number = 1)) is never accepted from the
\* player whose turn it is: the call raises and the board is as before.
C1_NoIllegalAcceptance ==
    InProgress =>
        \A card \in AllCards :
            card \notin SeqToSet(LegalNow) =>
                LET r == play_card_logic(game_state, CurrentId, card)
                IN  r.err # OK /\ r.gs.board = game_state.board

\* C2: the first card ever placed is the 7 of hearts: whenever some suit's run
\* holds a card, hearts has has_seven.
C2_FirstCardIsSevenOfHearts ==
    Started =>
        ((\E s \in SuitSet : game_state.board[s].cards # <<>>)
            => game_state.board["hearts"].has_seven)

\* C3: while the game is in progress, a pass by the player whose turn it is
\* returns exactly when the playable-cards answer (with is_first_move =
\* (turn_number = 1)) is empty, and raises whenever it is not.
C3_ForcedPassOnly ==
    InProgress =>
        LET r == pass_turn_logic(game_state, CurrentId)
        IN  /\ (r.err = OK) <=> (Len(LegalNow) = 0)
            /\ Len(LegalNow) > 0 => r.err = "You have playable cards - cannot pass"

\* a forced pass was taken, and the next player is refused one
C3_Witness ==
    /\ InProgress
    /\ call = "pass" /\ result = OK
    /\ Len(LegalNow) > 0
    /\ pass_turn_logic(game_state, CurrentId).err # OK

\* the fields the engine must not touch once the game is over
Frozen(gs) == <<gs.winner, gs.board, gs.current_player_index, gs.turn_number>>

\* C4: once winner is set, every play and every pass, by any caller and with
\* any card, raises, and winner, board, current_player_index and turn_number
\* stay as they are.
C4_FinishedIsTerminal ==
    (Started /\ game_state.winner # None) =>
        \A player_id \in CallerIds :
            /\ LET r == pass_turn_logic(game_state, player_id)
               IN  r.err # OK /\ Frozen(r.gs) = Frozen(game_state)
            /\ \A card \in AllCards :
                 LET r == play_card_logic(game_state, player_id, card)
                 IN  r.err # OK /\ Frozen(r.gs) = Frozen(game_state)

\* how a call moved the turn: on to the next seat, or not at all
TurnAdvanced(gs, r) ==
    /\ r.gs.current_player_index = (gs.current_player_index + 1) % Len(gs.players)
    /\ r.gs.turn_number = gs.turn_number + 1

TurnKept(gs, r) ==
    /\ r.gs.current_player_index = gs.current_player_index
    /\ r.gs.turn_number = gs.turn_number

\* C5: a returned non-winning move and a returned pass move the turn to seat
\* (previous + 1) mod n and add one to turn_number; a winning move and every
\* call that raises leave both alone; so current_player_index stays within
\* 0..n-1 and turn_number is 1 + the number of returned passes and non-winning
\* moves.
C5_TurnRoundRobin ==
    Started =>
        /\ game_state.current_player_index \in 0..(NumPlayers - 1)
        /\ game_state.turn_number = 1 + advances
        /\ \A player_id \in CallerIds :
            /\ LET r == pass_turn_logic(game_state, player_id)
               IN  IF r.err = OK THEN TurnAdvanced(game_state, r)
                                 ELSE TurnKept(game_state, r)
            /\ \A card \in AllCards :
                 LET r == play_card_logic(game_state, player_id, card)
                 IN  IF r.err = OK /\ ~IsWinningMove(game_state, r)
                     THEN TurnAdvanced(game_state, r)
                     ELSE TurnKept(game_state, r)

\* the turn has wrapped round from the last seat to seat 0, and a move has won
C5_Witness ==
    /\ Started
    /\ advances >= NumPlayers
    /\ game_state.winner # None
    /\ call = "play" /\ result = OK
    /\ game_state.current_player_index = 0

\* C6: once a suit has its 7, no call takes it away, raises its low or lowers
\* its high; a returned move of a non-7 card moves exactly one of its suit's
\* low and high, by exactly one step outward, and keeps the other.
C6_SequenceMonotone ==
    Started =>
        \A player_id \in CallerIds :
            /\ pass_turn_logic(game_state, player_id).gs.board = game_state.board
            /\ \A card \in AllCards :
                 LET r == play_card_logic(game_state, player_id, card)
                     before == game_state.board[card.suit]
                     after == r.gs.board[card.suit]
                 IN  /\ \A s \in SuitSet :
                            game_state.board[s].has_seven =>
                                /\ r.gs.board[s].has_seven
                                /\ r.gs.board[s].low <= game_state.board[s].low
                                /\ r.gs.board[s].high >= game_state.board[s].high
                     /\ (r.err = OK /\ card.rank # "7") =>
                            \/ after.low = before.low - 1 /\ after.high = before.high
                            \/ after.low = before.low /\ after.high = before.high + 1

\* a suit has grown on both sides of its 7
C6_Witness ==
    /\ Started
    /\ call = "play" /\ result = OK
    /\ \E s \in SuitSet : /\ game_state.board[s].has_seven
                          /\ game_state.board[s].low < 7
                          /\ game_state.board[s].high > 7

Hand(p) == game_state.players[p].hand

\* C7: after initialize_game_state the hands are pairwise disjoint, hold every
\* card of the deck exactly once, differ in size by at most one, and the card
\* at deck position i is with seat i mod n, for n in 2..4 and every ordering
\* the shuffle can produce.
C7_DealComplete ==
    call = "start" =>
        /\ NumPlayers \in 2..4
        /\ \A p, q \in 1..NumPlayers : p # q => HandSet(p) \cap HandSet(q) = {}
        /\ UNION {HandSet(p) : p \in 1..NumPlayers} = AllCards
        /\ \A p \in 1..NumPlayers : Cardinality(HandSet(p)) = Len(Hand(p))
        /\ \A p, q \in 1..NumPlayers : Len(Hand(p)) - Len(Hand(q)) <= 1
        /\ \A i \in 0..(Len(deck) - 1) :
               Hand((i % NumPlayers) + 1)[(i \div NumPlayers) + 1] = deck[i + 1]

\* four players were dealt a shuffled deck that does not divide evenly
C7_Witness ==
    /\ call = "start"
    /\ NumPlayers = 4
    /\ Len(Hand(1)) # Len(Hand(4))
    /\ deck # create_deck

\* C8: right after the start the turn is with the seat that holds the 7 of
\* hearts, turn_number is 1, winner is unset, and no suit has its 7, a low, a
\* high or a played card.
C8_StartState ==
    call = "start" =>
        /\ HasCard(CurrentPlayer.hand, SevenOfHearts)
        /\ game_state.turn_number = 1
        /\ game_state.winner = None
        /\ \A s \in SuitSet :
               /\ ~game_state.board[s].has_seven
               /\ game_state.board[s].low = None
               /\ game_state.board[s].high = None
               /\ game_state.board[s].cards = <<>>

\* the 7 of hearts was dealt to a seat other than seat 0, which starts
C8_Witness ==
    /\ call = "start"
    /\ game_state.current_player_index = 2
    /\ ~HasCard(Hand(1), SevenOfHearts)

\* C9: right after the start the playable-cards query with is_first_move set
\* answers exactly the 7 of hearts for the seat that holds it and nothing for
\* every other seat.
C9_OpeningLegality ==
    call = "start" =>
        \A p \in 1..NumPlayers :
            get_playable_cards(game_state.board, Hand(p), TRUE) =
                IF HasCard(Hand(p), SevenOfHearts) THEN <<SevenOfHearts>> ELSE <<>>

\* a seat that holds another 7 but not the 7 of hearts is answered nothing
C9_Witness ==
    /\ call = "start"
    /\ \E p \in 1..NumPlayers :
           /\ ~HasCard(Hand(p), SevenOfHearts)
           /\ \E k \in 1..Len(Hand(p)) : Hand(p)[k].rank = "7"
           /\ get_playable_cards(game_state.board, Hand(p), TRUE) = <<>>

\* C10: a move sets winner exactly when it returns and leaves the mover's hand
\* empty, and then to the mover's id; a pass, a call that raises and a move
\* that leaves cards in the hand do not touch winner.
C10_WinDetection ==
    Started =>
        \A player_id \in CallerIds :
            /\ pass_turn_logic(game_state, player_id).gs.winner = game_state.winner
            /\ \A card \in AllCards :
                 LET r == play_card_logic(game_state, player_id, card)
                 IN  IF IsWinningMove(game_state, r)
                     THEN r.gs.winner = player_id /\ player_id = CurrentId
                     ELSE r.gs.winner = game_state.winner

\* a player has played the last card of a hand and is the winner, after
\* other moves that left the winner unset
C10_Witness ==
    /\ Started
    /\ call = "play" /\ result = OK
    /\ game_state.winner = CurrentId
    /\ CurrentPlayer.hand = <<>>
    /\ game_state.turn_number > 2

\* the three messages of a play refused by the board
LegalityErrors ==
    {"7 already played for this suit", "Must play 7 first for this suit",
     "Invalid play - card must extend the sequence"}

\* the sequence q without its i-th entry
WithoutIndex(q, i) == [k \in 1..(Len(q) - 1) |-> IF k < i THEN q[k] ELSE q[k + 1]]

\* every hand but that of seat p is the same in gs2 as in gs1
OtherHandsKept(gs1, gs2, p) ==
    /\ Len(gs2.players) = Len(gs1.players)
    /\ \A q \in 1..Len(gs1.players) : q # p => gs2.players[q] = gs1.players[q]

\* C11: when the player whose turn it is plays a card of their hand and the
\* board refuses it, board, current_player_index, turn_number and winner are as
\* before, every other hand is as before, and the player's hand is the
\* earlier hand less that one card.
C11_RemoveBeforeValidate ==
    Started =>
        \A card \in AllCards :
            LET r == play_card_logic(game_state, CurrentId, card)
                seat == game_state.current_player_index + 1
            IN  (HasCard(CurrentPlayer.hand, card) /\ r.err \in LegalityErrors) =>
                    /\ Frozen(r.gs) = Frozen(game_state)
                    /\ OtherHandsKept(game_state, r.gs, seat)
                    /\ r.gs.players[seat].id = CurrentId
                    /\ \E i \in 1..Len(CurrentPlayer.hand) :
                           /\ CurrentPlayer.hand[i] = card
                           /\ r.gs.players[seat].hand = WithoutIndex(CurrentPlayer.hand, i)
                    /\ ~HasCard(r.gs.players[seat].hand, card)

\* a play was refused by the board and the hands no longer hold the whole deck
C11_Witness ==
    /\ Started
    /\ call = "play" /\ result \in LegalityErrors
    /\ \E card \in AllCards :
           /\ \A p \in 1..NumPlayers : ~HasCard(Hand(p), card)
           /\ \A s \in SuitSet : ~HasCard(game_state.board[s].cards, card)

\* C12: a play or a pass by anyone but the player at current_player_index
\* raises "Not your turn"; a play by that player of a card their hand does not
\* hold raises "You don't have this card", whatever the board would say of the
\* card; after either failure the whole game state, hands included, is as
\* before.
C12_CheckOrder ==
    Started =>
        /\ \A player_id \in CallerIds \ {CurrentId} :
              /\ pass_turn_logic(game_state, player_id) =
                     [err |-> "Not your turn", gs |-> game_state]
              /\ \A card \in AllCards :
                     play_card_logic(game_state, player_id, card) =
                         [err |-> "Not your turn", gs |-> game_state]
        /\ \A card \in AllCards :
              ~HasCard(CurrentPlayer.hand, card) =>
                  play_card_logic(game_state, CurrentId, card) =
                      [err |-> "You don't have this card", gs |-> game_state]
        /\ \A card \in AllCards :
              LET r == play_card_logic(game_state, CurrentId, card)
              IN  r.err \in {"Not your turn", "You don't have this card"} =>
                      r.gs = game_state

\* a play of a card the player to move does not hold has just been refused,
\* on a board that already holds cards, and the board would refuse a card
\* that player does not hold
C12_Witness ==
    /\ Started
    /\ call = "play" /\ result = "You don't have this card"
    /\ \E s \in SuitSet : game_state.board[s].has_seven
    /\ \E card \in AllCards :
           /\ ~HasCard(CurrentPlayer.hand, card)
           /\ ApplyToSuit(game_state.board[card.suit], card).err # OK

\* C13: a pass that returns changes current_player_index, turn_number and
\* last_action and nothing else (board, hands, seat order and winner stay); a
\* pass that raises changes nothing.
C13_PassFrame ==
    Started =>
        \A player_id \in CallerIds :
            LET r == pass_turn_logic(game_state, player_id)
            IN  IF r.err = OK
                THEN r.gs = [game_state EXCEPT
                                !.current_player_index = r.gs.current_player_index,
                                !.turn_number = r.gs.turn_number,
                                !.last_action = r.gs.last_action]
                ELSE r.gs = game_state

\* a pass has returned on a board that holds cards, and the next player's pass
\* is refused
C13_Witness ==
    /\ Started
    /\ call = "pass" /\ result = OK
    /\ \E s \in SuitSet : game_state.board[s].cards # <<>>
    /\ pass_turn_logic(game_state, CurrentId).err = "You have playable cards - cannot pass"

\* C15: with hearts at low L and high H, a heart of value v held by the player
\* to move is refused as not extending the sequence when v > H + 1 or
\* v < L - 1; a heart other than the 7 is taken only when H = v - 1 (it becomes
\* the high end) or L = v + 1 (it becomes the low end). So after the 7 and the 6
\* of hearts the 9 is refused until the 8 is on the board.
C15_GapRejection ==
    Started =>
        LET hearts == game_state.board["hearts"]
        IN  \A card \in SeqToSet(HeartsDeck) :
                LET v == CARD_RANKS[card.rank]
                    r == play_card_logic(game_state, CurrentId, card)
                    after == r.gs.board["hearts"]
                IN  (HasCard(CurrentPlayer.hand, card) /\ hearts.has_seven) =>
                        /\ (v > hearts.high + 1 \/ v < hearts.low - 1) =>
                               /\ r.err = "Invalid play - card must extend the sequence"
                               /\ after = hearts
                        /\ r.err = OK =>
                               \/ hearts.high = v - 1 /\ after.high = v /\ after.low = hearts.low
                               \/ hearts.low = v + 1 /\ after.low = v /\ after.high = hearts.high
                        /\ (hearts.high = v - 1 \/ hearts.low = v + 1) => r.err = OK

\* the 7 and the 6 of hearts are on the board, and the 9 of hearts has just
\* been refused: it has left its hand and is not on the board
C15_Witness ==
    /\ Started
    /\ call = "play" /\ result = "Invalid play - card must extend the sequence"
    /\ game_state.board["hearts"].cards = <<SevenOfHearts, Card("6", "hearts")>>
    /\ \A p \in 1..NumPlayers : ~HasCard(Hand(p), Card("9", "hearts"))
    /\ \E p \in 1..NumPlayers : HasCard(Hand(p), Card("8", "hearts"))

\* the room holds a dealt game
Dealt == room # Null /\ room.game_state # Null

\* the playable-cards answer for seat p of the stored game, judged as
\* ai_choose_card judges it
LegalFor(p) ==
    get_playable_cards(room.game_state.board, room.game_state.players[p].hand,
                       room.game_state.turn_number = 1)

\* the positions in seat p's hand of the 7s that are legal
LegalSevenAt(p) ==
    LET hand == room.game_state.players[p].hand
    IN  {i \in 1..Len(hand) : hand[i].rank = "7" /\ hand[i] \in SeqToSet(LegalFor(p))}

\* what ai_choose_card can return for seat p of the stored game
Choice(p, difficulty) ==
    ai_choose_card(room.game_state, room.game_state.players[p], difficulty)

\* C18: for every stored game, seat and difficulty, ai_choose_card returns no
\* card exactly when the playable-cards answer (with is_first_move =
\* (turn_number = 1)) is empty, and otherwise a member of that answer, which
\* is a card of the seat's hand.
C18_ChoiceIsLegal ==
    Dealt =>
        \A p \in 1..Len(room.game_state.players), difficulty \in Difficulties :
            LET legal == SeqToSet(LegalFor(p))
                out == Choice(p, difficulty)
            IN  /\ out # {}
                /\ (Null \in out) <=> (legal = {})
                /\ legal = {} => out = {Null}
                /\ legal # {} => out \subseteq legal
                /\ out \ {Null} \subseteq SeqToSet(room.game_state.players[p].hand)

\* an AI turn has just been stored as a pass, and another seat holds a card
\* it can play
C18_Witness ==
    /\ Dealt
    /\ call = "ai" /\ result = OK
    /\ room.game_state.last_action[1] = "passed"
    /\ \E p \in 1..Len(room.game_state.players) : LegalFor(p) # <<>>

\* C19: for difficulty medium and for a difficulty the server does not name,
\* ai_choose_card returns the first legal 7 in hand order when a 7 is legal;
\* when none is, every member of the legal set can be returned and nothing
\* else; the unnamed difficulty yields a value like any other.
C19_MediumAndDefault ==
    Dealt =>
        \A p \in 1..Len(room.game_state.players), difficulty \in {"medium", "expert"} :
            LET hand == room.game_state.players[p].hand
                legal == SeqToSet(LegalFor(p))
                out == Choice(p, difficulty)
            IN  /\ out # {}
                /\ LegalSevenAt(p) # {} =>
                       out = {hand[CHOOSE i \in LegalSevenAt(p) :
                                      \A j \in LegalSevenAt(p) : i <= j]}
                /\ (LegalSevenAt(p) = {} /\ legal # {}) => out = legal

\* in a room of medium or unnamed difficulty an AI seat is to move and holds
\* two legal 7s
C19_Witness ==
    /\ Dealt
    /\ room.ai_difficulty \in {"medium", "expert"}
    /\ room.game_state.winner = None
    /\ CurrentIsAi(room.game_state)
    /\ Cardinality(LegalSevenAt(room.game_state.current_player_index + 1)) >= 2

\* C20: for difficulty hard, when one or more 7s are legal, ai_choose_card
\* returns the legal 7 whose suit has the most cards in the hand, and among
\* the 7s tied for the most the one that comes first in the hand.
C20_HardAnchor ==
    Dealt =>
        \A p \in 1..Len(room.game_state.players) :
            LET hand == room.game_state.players[p].hand
                in_suit(i) == Cardinality({k \in 1..Len(hand) : hand[k].suit = hand[i].suit})
                best(i) == \A j \in LegalSevenAt(p) :
                               /\ in_suit(j) <= in_suit(i)
                               /\ in_suit(j) = in_suit(i) => i <= j
            IN  LegalSevenAt(p) # {} =>
                    Choice(p, "hard") = {hand[CHOOSE i \in LegalSevenAt(p) : best(i)]}

\* in a hard room an AI seat is to move and holds two legal 7s, the later one
\* of a suit it holds more cards of
C20_Witness ==
    /\ Dealt
    /\ room.ai_difficulty = "hard"
    /\ room.game_state.winner = None
    /\ CurrentIsAi(room.game_state)
    /\ LET p == room.game_state.current_player_index + 1
           hand == room.game_state.players[p].hand
       IN  \E i, j \in LegalSevenAt(p) :
               /\ i < j
               /\ SuitCount(hand, hand[i].suit) < SuitCount(hand, hand[j].suit)

\* C21: for difficulty hard, when no 7 is legal, each legal card scores 2 for
\* every card of the hand in its suit one step further from the 7 (one below
\* a card under 7, one above a card over 7); when some legal card scores
\* above zero, ai_choose_card returns the legal card of the highest score,
\* the earliest in hand order among the cards of that score.
C21_HardScoring ==
    Dealt =>
        \A p \in 1..Len(room.game_state.players) :
            LET hand == room.game_state.players[p].hand
                legal == LegalFor(p)
                outward(c) == IF CARD_RANKS[c.rank] < 7
                              THEN CARD_RANKS[c.rank] - 1
                              ELSE CARD_RANKS[c.rank] + 1
                points(c) == 2 * Cardinality({k \in 1..Len(hand) :
                                                 /\ hand[k].suit = c.suit
                                                 /\ CARD_RANKS[hand[k].rank] = outward(c)})
                best(i) == \A j \in 1..Len(legal) :
                               /\ points(legal[j]) <= points(legal[i])
                               /\ j < i => points(legal[j]) < points(legal[i])
            IN  (LegalSevenAt(p) = {} /\ legal # <<>>) =>
                    /\ \A i \in 1..Len(legal) : Score(legal[i], hand) = points(legal[i])
                    /\ (\E i \in 1..Len(legal) : points(legal[i]) > 0) =>
                           Choice(p, "hard") = {legal[CHOOSE i \in 1..Len(legal) : best(i)]}

\* in a hard room a seat holds no legal 7 and two legal cards, the earlier
\* one scoring nothing and the later one above zero
C21_Witness ==
    /\ Dealt
    /\ room.ai_difficulty = "hard"
    /\ room.game_state.winner = None
    /\ \E p \in 1..Len(room.game_state.players) :
           LET hand == room.game_state.players[p].hand
               legal == LegalFor(p)
           IN  /\ LegalSevenAt(p) = {}
               /\ \E i, j \in 1..Len(legal) :
                      /\ i < j
                      /\ Score(legal[i], hand) = 0
                      /\ Score(legal[j], hand) > 0

\* C22: for difficulty hard, when no 7 is legal and no legal card scores
\* above zero, ai_choose_card chooses at random among the legal cards: every
\* member of the legal set can be returned, not only the first.
C22_HardFallback ==
    Dealt =>
        \A p \in 1..Len(room.game_state.players) :
            LET hand == room.game_state.players[p].hand
                legal == LegalFor(p)
            IN  (/\ legal # <<>>
                 /\ LegalSevenAt(p) = {}
                 /\ \A i \in 1..Len(legal) : Score(legal[i], hand) = 0) =>
                    Choice(p, "hard") = SeqToSet(legal)

\* the step is a start_game request handled from load to store
StartStep == call' = "start" /\ UNCHANGED <<tasks, ai_pending>>

\* C14: with requests handled one at a time, start_game on a room of fewer
\* than 2 players, or whose status is not waiting, is refused and leaves the
\* room document (players, hands, game state, status) as it was; a start
\* that is accepted finds no game state, so no game is dealt twice.
C14_StartPreconditions ==
    [][StartStep =>
          /\ (Len(room.players) < 2 \/ room.status # "waiting") =>
                 (result' # OK /\ room' = room)
          /\ result' = OK =>
                 (room.game_state = Null /\ room'.game_state # Null)
          /\ room.game_state # Null => room' = room]_vars

\* a start was refused on a game that had already moved past its first turn
C14_Witness ==
    /\ Dealt
    /\ call = "start" /\ result = "Game already started"
    /\ room.game_state.turn_number > 1
    /\ room.status = "playing"

\* the step ends a handler or AI turn that was between its load and its
\* store, and that one answers with success
StoresFrom(i) ==
    /\ i \in 1..Len(tasks)
    /\ tasks' = RemoveAt(tasks, i)
    /\ tasks[i].kind = call'
    /\ result' = OK

\* C16: however play and pass handlers and AI turns interleave, each one that
\* answers with success worked on the game state that is stored when it
\* stores its own: none overwrites a play stored after its load, and no two
\* of them loaded from the same turn both succeed.
C16_Serialized ==
    [][(call' \in {"play", "pass", "ai"} /\ \E i \in 1..Len(tasks) : StoresFrom(i)) =>
          \E i \in 1..Len(tasks) :
              StoresFrom(i) /\ tasks[i].snap.game_state = room.game_state]_vars

\* the seats of the stored game that are AI seats
AiSeats ==
    {p \in 1..Len(room.game_state.players) : room.game_state.players[p].is_ai}

\* C17: every AI turn that is stored is applied to a stored state that has no
\* winner and an AI seat to move, and no more AI turns are stored in a row,
\* with no turn of a human in between, than the game has AI seats (3 at
\* most).
C17_AiChain ==
    [][ai_run' = ai_run + 1 =>
          /\ room.game_state.winner = None
          /\ CurrentIsAi(room.game_state)
          /\ ai_run' <= Cardinality(AiSeats)
          /\ ai_run' <= 3]_vars

\* the place of a status on the way from waiting to finished
StatusRank(status) ==
    IF status = "waiting" THEN 0 ELSE IF status = "playing" THEN 1 ELSE 2

\* the status of the stored room agrees with its game state
StatusAgrees(r) ==
    /\ r.status \in {"waiting", "playing", "finished"}
    /\ r.status = "waiting" <=> r.game_state = Null
    /\ r.status = "finished" <=> (r.game_state # Null /\ r.game_state.winner # None)

\* C23: with requests handled one at a time, the status of a room is one of
\* waiting, playing, finished; it is waiting exactly when the room has no
\* game state and finished exactly when the game state has a winner; and no
\* step takes it backward on the way waiting, playing, finished.
C23_Lifecycle ==
    [][/\ room' # Null => StatusAgrees(room')
       /\ (room # Null /\ room' # Null) =>
              StatusRank(room'.status) >= StatusRank(room.status)]_vars

\* a play request has just been stored with the winning card and the room
\* is finished
C23_Witness ==
    /\ Dealt
    /\ call = "play" /\ result = OK
    /\ room.status = "finished"
    /\ room.game_state.winner # None

\* the ids of a list of players, in seat order
SeatIds(players) == [p \in 1..Len(players) |-> players[p].id]

\* C24: every game state has between 2 and 4 players and an AI game between
\* 1 and 3 AI seats; a player is added only to a waiting room of fewer than
\* 4 players; and once a game is dealt, the number and order of its seats
\* stay as dealt.
C24_Seats ==
    [][/\ (room' # Null /\ room'.game_state # Null) =>
              /\ Len(room'.game_state.players) \in 2..4
              /\ room'.is_ai_game =>
                     Cardinality({p \in 1..Len(room'.game_state.players) :
                                     room'.game_state.players[p].is_ai}) \in 1..3
       /\ (room # Null /\ room' # Null /\ Len(room'.players) > Len(room.players)) =>
              /\ room.status = "waiting"
              /\ Len(room.players) < 4
       /\ (room # Null /\ room.game_state # Null) =>
              /\ room'.game_state # Null
              /\ SeatIds(room'.game_state.players) = SeatIds(room.game_state.players)]_vars

\* C25: in every in-progress state the driver reaches, the player to move
\* has an accepted action: when the playable-cards answer for that player
\* (is_first_move = (turn_number = 1)) is not empty, playing its first card
\* is accepted, and when it is empty, passing is accepted; and the request
\* the driver sends is answered with success.
C25_NeverStuck ==
    [][/\ (Dealt /\ room.status = "playing") =>
              LET gs == room.game_state
              IN  IF DriverPlayable # <<>>
                  THEN play_card_logic(gs, DriverId, DriverPlayable[1]).err = OK
                  ELSE pass_turn_logic(gs, DriverId).err = OK
       /\ call' \in {"play", "pass"} => result' = OK]_vars

\* the driver has just passed for a player who still holds cards, and the
\* next player has a card to play
C25_Witness ==
    /\ Dealt
    /\ call = "pass" /\ result = OK
    /\ room.status = "playing"
    /\ room.game_state.last_action[1] = "passed"
    /\ \E p \in 1..Len(room.game_state.players) :
           /\ room.game_state.players[p].id = room.game_state.last_action[2]
           /\ room.game_state.players[p].hand # <<>>
    /\ DriverPlayable # <<>>

\* the engine call c (a play of c.card, or a pass when c.card is Null, by
\* c.player_id) is rejected when made on gs
Rejected(gs, c) ==
    IF c.card # Null
    THEN play_card_logic(gs, c.player_id, c.card).err # OK
    ELSE pass_turn_logic(gs, c.player_id).err # OK

\* what the engine call c returns when made on gs
Outcome(gs, c) ==
    IF c.card # Null
    THEN play_card_logic(gs, c.player_id, c.card)
    ELSE pass_turn_logic(gs, c.player_id)

\* the engine calls the callers make: a play of each card of either deck
\* and a pass
EngineCalls ==
    {[player_id |-> player_id, card |-> card] :
        player_id \in CallerIds,
        card \in AllCards \cup SeqToSet(HeartsDeck) \cup {Null}}

\* C26: a rejected play_card_logic or pass_turn_logic call leaves every call
\* that was rejected before it rejected after it, itself included; so a
\* rejected call repeated after any number of rejected calls, with no
\* successful call in between, is rejected again.
C26_RejectionsStable ==
    Started =>
        \A d \in EngineCalls :
            LET after == Outcome(game_state, d)
            IN  after.err # OK =>
                    \/ after.gs = game_state
                    \/ \A c \in EngineCalls :
                           Rejected(game_state, c) => Rejected(after.gs, c)

\* a play has just been rejected for a card that is in no hand and not on
\* the board: an earlier rejected play took it out of the hand
C26_Witness ==
    /\ Started
    /\ call = "play"
    /\ result = "You don't have this card"
    /\ \E card \in AllCards \cup SeqToSet(HeartsDeck) :
           /\ HasCard(deck, card)
           /\ \A p \in 1..NumPlayers : ~HasCard(game_state.players[p].hand, card)
           /\ ~HasCard(game_state.board[card.suit].cards, card)

\* C27: when play_card_logic accepts card (r, s) from the player to move,
\* the card is gone from that player's hand and is the last entry of the
\* played cards of s, which are otherwise as before; if r is 7, s has
\* has_seven true and low = high = 7, otherwise exactly the extreme of s on
\* the card's side of the 7 becomes the value of r; the other three suits
\* and every other player's hand are as before.
C27_MoveEffect ==
    Started =>
        \A card \in AllCards :
            LET r == play_card_logic(game_state, CurrentId, card)
                seat == game_state.current_player_index + 1
                before == game_state.board[card.suit]
                after == r.gs.board[card.suit]
                v == CARD_RANKS[card.rank]
            IN  r.err = OK =>
                    /\ \E i \in 1..Len(CurrentPlayer.hand) :
                           /\ CurrentPlayer.hand[i] = card
                           /\ r.gs.players[seat].hand = WithoutIndex(CurrentPlayer.hand, i)
                    /\ ~HasCard(r.gs.players[seat].hand, card)
                    /\ after.cards = Append(before.cards, card)
                    /\ after.has_seven
                    /\ IF card.rank = "7"
                       THEN after.low = 7 /\ after.high = 7
                       ELSE IF v < 7
                            THEN after.low = v /\ after.high = before.high
                            ELSE after.high = v /\ after.low = before.low
                    /\ \A s \in AllSuits \ {card.suit} :
                           r.gs.board[s] = game_state.board[s]
                    /\ OtherHandsKept(game_state, r.gs, seat)

\* a card above 7 has just been accepted onto a suit that already held
\* cards below its 7
C27_Witness ==
    /\ Started
    /\ call = "play" /\ result = OK
    /\ game_state.last_action[1] = "played"
    /\ LET card == game_state.last_action[3]
           suit_state == game_state.board[card.suit]
       IN  /\ CARD_RANKS[card.rank] > 7
           /\ suit_state.high = CARD_RANKS[card.rank]
           /\ suit_state.low < 7
           /\ suit_state.cards[Len(suit_state.cards)] = card

\* C28: in every state and for every suit: when has_seven is false, low and
\* high are unset and no card of the suit is played; when has_seven is true,
\* 1 <= low <= 7 <= high <= 13, the played cards are the cards of the suit
\* with values low..high, each once, the 7 first, high - low + 1 in all.
C28_SuitRun ==
    Started =>
        \A s \in AllSuits :
            LET suit_state == game_state.board[s]
                cards == suit_state.cards
            IN  /\ ~suit_state.has_seven =>
                       /\ suit_state.low = None
                       /\ suit_state.high = None
                       /\ cards = <<>>
                /\ suit_state.has_seven =>
                       /\ 1 <= suit_state.low /\ suit_state.low <= 7
                       /\ 7 <= suit_state.high /\ suit_state.high <= 13
                       /\ Len(cards) = suit_state.high - suit_state.low + 1
                       /\ cards[1] = Card("7", s)
                       /\ \A i \in 1..Len(cards) :
                              /\ cards[i].suit = s
                              /\ CARD_RANKS[cards[i].rank] \in suit_state.low..suit_state.high
                       /\ \A i, j \in 1..Len(cards) : cards[i] = cards[j] => i = j

\* one suit holds its 7 with a card on each side while another suit of the
\* deck has no card played
C28_Witness ==
    /\ Started
    /\ \E s, u \in SuitSet :
           /\ game_state.board[s].has_seven
           /\ Len(game_state.board[s].cards) = 3
           /\ game_state.board[s].low = 6
           /\ game_state.board[s].high = 8
           /\ ~game_state.board[u].has_seven

\* C29: in every state with turn_number > 1, for the player to move and
\* every card c of their hand, play_card_logic accepts c exactly when c is
\* in get_playable_cards(board, hand, False); and that answer holds exactly
\* the 7s of the hand whose suit has no 7 played and the cards of the hand
\* whose value is low - 1 or high + 1 of a suit whose 7 is played.
C29_ValidatorAgrees ==
    (Started /\ game_state.turn_number > 1) =>
        LET hand == CurrentPlayer.hand
            answer == get_playable_cards(game_state.board, hand, FALSE)
            extends(c) ==
                LET suit_state == game_state.board[c.suit]
                IN  \/ c.rank = "7" /\ ~suit_state.has_seven
                    \/ /\ suit_state.has_seven
                       /\ \/ CARD_RANKS[c.rank] = suit_state.low - 1
                          \/ CARD_RANKS[c.rank] = suit_state.high + 1
        IN  /\ \A c \in SeqToSet(hand) :
                   play_card_logic(game_state, CurrentId, c).err = OK
                       <=> c \in SeqToSet(answer)
            /\ SeqToSet(answer) = {c \in SeqToSet(hand) : extends(c)}
            /\ \A c \in AllCards \ SeqToSet(hand) :
                   play_card_logic(game_state, CurrentId, c).err # OK

\* after the opening the player to move holds a 7 that anchors a new suit,
\* a card that extends a played suit, and a card the board would refuse
C29_Witness ==
    /\ InProgress
    /\ game_state.turn_number > 1
    /\ LET hand == SeqToSet(CurrentPlayer.hand)
           answer == SeqToSet(get_playable_cards(game_state.board, CurrentPlayer.hand, FALSE))
       IN  /\ \E c \in answer : c.rank = "7"
           /\ \E c \in answer : c.rank # "7"
           /\ hand \ answer # {}

\* the step is a play or pass request handled from load to response
RequestStep == call' \in {"play", "pass"} /\ ai_pending' >= ai_pending

\* C30: with requests handled one at a time, a play or pass request on a
\* room whose status is not playing is answered "Game not in progress", the
\* handler's own refusal, and leaves the stored room as it was; and no step
\* on a finished room changes its game state or its status.
C30_InertRoom ==
    [][/\ (room # Null /\ room.status # "playing" /\ RequestStep) =>
              /\ result' = "Game not in progress"
              /\ room' = room
       /\ (room # Null /\ room.status = "finished") =>
              /\ room'.game_state = room.game_state
              /\ room'.status = "finished"]_vars

\* a play or pass request has just been refused on a finished room
C30_Witness ==
    /\ Dealt
    /\ room.status = "finished"
    /\ call \in {"play", "pass"}
    /\ result = "Game not in progress"

\* C31: a play or pass request that is rejected, and an AI turn whose engine
\* call raises, leave the stored room record as it was, the hand of the
\* player who sent the card included: the card the engine took from the
\* hand in memory before it refused is not stored.
C31_RejectedStoresNothing ==
    [][((RequestStep \/ call' = "ai") /\ result' # OK) => room' = room]_vars

\* a play has just been refused by the board, after the engine had taken the
\* card from the hand in memory, and the stored hands and board still hold
\* every card of the deck
C31_Witness ==
    /\ Dealt
    /\ call = "play"
    /\ result \in LegalityErrors
    /\ \A card \in AllCards :
           \/ \E p \in 1..Len(room.game_state.players) :
                  HasCard(room.game_state.players[p].hand, card)
           \/ HasCard(room.game_state.board[card.suit].cards, card)

\* how many entries of the sequence q are the card
Occurrences(q, card) == Cardinality({i \in 1..Len(q) : q[i] = card})

\* how many times the card is held in the hands of gs or lies on its board
Copies(gs, hands, card) ==
    LET RECURSIVE InHands(_)
        InHands(p) == IF p = 0 THEN 0
                      ELSE Occurrences(hands[p].hand, card) + InHands(p - 1)
        RECURSIVE OnBoard(_)
        OnBoard(k) == IF k = 0 THEN 0
                      ELSE Occurrences(gs.board[SuitOrder[k]].cards, card) + OnBoard(k - 1)
    IN  InHands(Len(hands)) + OnBoard(Len(SuitOrder))

\* C32: with requests handled one at a time, in every stored room that has a
\* game state the hands and the played cards of the four suits partition the
\* deck: every card of the deck is in exactly one hand or on the board
\* exactly once, and a played card lies under its own suit.
C32_CardConservation ==
    Dealt =>
        LET gs == room.game_state
        IN  /\ \A card \in AllCards : Copies(gs, gs.players, card) = 1
            /\ \A p \in 1..Len(gs.players) :
                   SeqToSet(gs.players[p].hand) \subseteq AllCards
            /\ \A s \in AllSuits :
                   \A i \in 1..Len(gs.board[s].cards) :
                       /\ gs.board[s].cards[i] \in AllCards
                       /\ gs.board[s].cards[i].suit = s

\* a request has just been rejected in a game with cards on the board of
\* two suits, some played by an AI seat
C32_Witness ==
    /\ Dealt
    /\ room.is_ai_game
    /\ call \in {"play", "pass"} /\ result # OK
    /\ \E s, u \in SuitSet :
           /\ s # u
           /\ room.game_state.board[s].cards # <<>>
           /\ room.game_state.board[u].cards # <<>>

\* C33: in every state the in-place engine reaches, rejected calls
\* included, a player's hand is empty only if winner is that player's id.
C33_EmptyHandWins ==
    Started =>
        \A p \in 1..NumPlayers :
            Hand(p) = <<>> => game_state.winner = game_state.players[p].id

\* C34: in every state the in-place engine reaches, accepted and rejected
\* calls alike, no hand holds the 7 of a suit whose has_seven is true; so no
\* call raises "7 already played for this suit", and a 7 the player to move
\* holds is accepted when played.
C34_SevenNeverRefused ==
    Started =>
        /\ \A p \in 1..NumPlayers, s \in AllSuits :
               game_state.board[s].has_seven => ~HasCard(Hand(p), Card("7", s))
        /\ \A player_id \in CallerIds, card \in AllCards :
               play_card_logic(game_state, player_id, card).err
                   # "7 already played for this suit"
        /\ \A card \in SeqToSet(CurrentPlayer.hand) :
               card.rank = "7" => play_card_logic(game_state, CurrentId, card).err = OK

\* after a rejected play, one suit has its 7 on the board and the player to
\* move holds the 7 of another
C34_Witness ==
    /\ Started
    /\ call = "play" /\ result # OK
    /\ \E s \in SuitSet : game_state.board[s].has_seven
    /\ \E card \in SeqToSet(CurrentPlayer.hand) :
           card.rank = "7" /\ ~game_state.board[card.suit].has_seven

\* the seats of gs, counted from 1, that hold a card the board of gs takes
LegalHolders(gs) ==
    {p \in 1..Len(gs.players) :
        get_playable_cards(gs.board, gs.players[p].hand, FALSE) # <<>>}

\* how many seats the turn of gs has to move on to reach a seat of
\* LegalHolders(gs), which is not empty
PassesLeft(gs) ==
    LET n == Len(gs.players)
        reach(k) == ((gs.current_player_index + k) % n) + 1 \in LegalHolders(gs)
    IN  CHOOSE k \in 0..(n - 1) : reach(k) /\ \A j \in 0..(k - 1) : ~reach(j)

\* the step stores a pass
PassStored ==
    /\ Dealt
    /\ room'.game_state.turn_number = room.game_state.turn_number + 1
    /\ room'.game_state.last_action[1] = "passed"

\* C35: in every stored game without a winner, reached through accepted
\* moves and passes, some player holds a card the board takes; every
\* accepted pass is made by a seat that holds none and brings the turn one
\* seat closer to the nearest seat that holds one, so with n players at most
\* n - 1 passes follow one another.
C35_NoDeadlock ==
    [][/\ (Dealt' /\ room'.game_state.winner = None) =>
              LegalHolders(room'.game_state) # {}
       /\ PassStored =>
              /\ LegalHolders(room.game_state) # {}
              /\ PassesLeft(room.game_state) >= 1
              /\ PassesLeft(room.game_state) <= Len(room.game_state.players) - 1
              /\ PassesLeft(room'.game_state) = PassesLeft(room.game_state) - 1]_vars

\* a pass has just been stored and the seat now to move holds no card the
\* board takes either: a second pass follows
C35_Witness ==
    /\ Dealt
    /\ room.game_state.winner = None
    /\ call \in {"pass", "ai"} /\ result = OK
    /\ room.game_state.last_action[1] = "passed"
    /\ PassesLeft(room.game_state) >= 1

(* the game played to its end on the engine: at every turn the player to
   move plays one of the cards the playable-cards query answers, or passes
   when it answers none; no call is rejected and no turn is cut off *)
PolicyPlay(card) ==
    /\ InProgress
    /\ card \in SeqToSet(LegalNow)
    /\ LET r == play_card_logic(game_state, CurrentId, card)
       IN  /\ game_state' = r.gs
           /\ result' = r.err
           /\ advances' = IF r.err = OK /\ ~IsWinningMove(game_state, r)
                          THEN advances + 1 ELSE advances
    /\ call' = "play"
    /\ UNCHANGED deck
    /\ UNCHANGED roomvars

PolicyPass ==
    /\ InProgress
    /\ LegalNow = <<>>
    /\ LET r == pass_turn_logic(game_state, CurrentId)
       IN  /\ game_state' = r.gs
           /\ result' = r.err
           /\ advances' = IF r.err = OK THEN advances + 1 ELSE advances
    /\ call' = "pass"
    /\ UNCHANGED deck
    /\ UNCHANGED roomvars

\* the turn of the player to move under the policy
PolicyTurn == (\E card \in AllCards : PolicyPlay(card)) \/ PolicyPass

NextPolicy ==
    \/ \E num_players \in 2..4, d \in ShuffleSample(create_deck) : StartGame(num_players, d)
    \/ \E card \in AllCards : PolicyPlay(card)
    \/ PolicyPass

\* the players keep taking their turns: a turn that can be taken is taken
SpecPolicy == Init /\ [][NextPolicy]_vars /\ WF_vars(PolicyTurn)

\* the cards on the board of the game: one for each accepted move
MovesMade ==
    LET RECURSIVE OnBoard(_)
        OnBoard(k) == IF k = 0 THEN 0
                      ELSE Len(game_state.board[SuitOrder[k]].cards) + OnBoard(k - 1)
    IN  OnBoard(Len(SuitOrder))

\* C36: when at every turn the player to move plays a legal card if the
\* hand holds one and passes otherwise, every started game reaches a state
\* with a winner; no game has more accepted moves than the deck has cards
\* and every call of the policy is accepted; and in a state with a winner
\* exactly one player, the winner, has an empty hand.
C36_Termination ==
    /\ [](IF Started
          THEN /\ result = OK
               /\ MovesMade <= Len(deck)
               /\ game_state.winner # None =>
                      \A p \in 1..NumPlayers :
                          Hand(p) = <<>> <=> game_state.players[p].id = game_state.winner
          ELSE TRUE)
    /\ Started ~> (IF Started THEN game_state.winner # None ELSE FALSE)

\* a game has been won after three or more accepted moves and a pass
C36_Witness ==
    /\ Started
    /\ game_state.winner # None
    /\ MovesMade >= 3
    /\ game_state.turn_number > MovesMade

\* C37: in every stored game without a winner whose seat to move is an AI
\* seat, whatever ai_choose_card returns, for any difficulty, the call
\* process_ai_turn makes of it is accepted: play_card_logic takes the chosen
\* card, and pass_turn_logic lets the seat pass when no card is chosen; and
\* no AI turn ends on an error.
C37_AiNeverRejected ==
    /\ call = "ai" => result = OK
    /\ (Dealt /\ room.game_state.winner = None /\ CurrentIsAi(room.game_state)) =>
           LET gs == room.game_state
               current_player == gs.players[gs.current_player_index + 1]
           IN  \A difficulty \in Difficulties :
                   \A chosen_card \in ai_choose_card(gs, current_player, difficulty) :
                       IF chosen_card # Null
                       THEN play_card_logic(gs, current_player.id, chosen_card).err = OK
                       ELSE pass_turn_logic(gs, current_player.id).err = OK

\* an AI seat has just played, the next seat is an AI seat too and has no
\* card to play: its turn will be a pass
C37_Witness ==
    /\ Dealt
    /\ room.game_state.winner = None
    /\ call = "ai" /\ result = OK
    /\ room.game_state.last_action[1] = "played"
    /\ CurrentIsAi(room.game_state)
    /\ Choice(room.game_state.current_player_index + 1, room.ai_difficulty) = {Null}

\* C38: under any interleaving of the join, start, play and pass handlers,
\* a stored room that has a game state has a players list equal to the
\* players of the game state: the same ids in the same order with the same
\* hands; no player is added to a room whose game has been dealt.
C38_RosterConsistent ==
    Dealt =>
        /\ SeatIds(room.players) = SeatIds(room.game_state.players)
        /\ room.players = room.game_state.players

====
